---- MODULE Spec2Model ----
(***************************************************************************)
(* pyNewportController: the Newport SMC100 driver                          *)
(* (src/pyNewportController/NewportSMC100.py).                             *)
(*                                                                         *)
(* The program is modelled as a set of Python threads, each with a call    *)
(* stack of frames [proc, pc, self, arg, loc].  One action is one step of  *)
(* one method; a step that calls another method pushes its frame and       *)
(* leaves the caller at the label where it resumes.  The serial port and   *)
(* the SMC100 controllers behind it are the environment: a line written    *)
(* to the port is handled by the addressed controller, whose reply line    *)
(* is queued for readline().                                               *)
(***************************************************************************)
EXTENDS Integers, Sequences, FiniteSets, TLC

(***************************************************************************)
(* Bounds of the model.                                                    *)
(***************************************************************************)
MaxThreads == 4         \* thread slots: callers and the threads SetState starts
MaxTimeouts == 2        \* write timeouts the transport may produce in a row
MaxFaults == 1          \* transport errors (SerialException) the port may raise
MaxDepth == 12          \* deepest call stack of one thread (the recursion limit)
MaxPos == 2             \* positions asked for range over -MaxPos..MaxPos
MaxWire == 24           \* lines a recording transport keeps
DevMax == 1             \* the stage's travel limits are -DevMax (SL) and DevMax (SR)

Threads == 1..MaxThreads
Devices == {1, 2}       \* 1: the MainController, 2: a Controller made by NewController
Main == 1

None == "None"
PyTrue == "True"
PyFalse == "False"

(***************************************************************************)
(* Python string helpers.                                                  *)
(***************************************************************************)
\* s[n:]
From(s, n) == SubSeq(s, n + 1, Len(s))

\* s[-2:]
Last2(s) == IF Len(s) <= 2 THEN s ELSE SubSeq(s, Len(s) - 1, Len(s))

\* s.startswith(p)
StartsWith(s, p) == Len(s) >= Len(p) /\ SubSeq(s, 1, Len(p)) = p

Digit(d) == SubSeq("0123456789", d + 1, d + 1)

\* str(n) for an int
RECURSIVE Str(_)
Str(n) ==
    IF n < 0 THEN "-" \o Str(0 - n)
    ELSE IF n < 10 THEN Digit(n)
    ELSE Str(n \div 10) \o Digit(n % 10)

\* str(float(v)) for an integral v: "2.0", "-1.0"
FloatStr(v) == Str(v) \o ".0"

DigitVal(c) == CHOOSE d \in 0..9 : Digit(d) = c

IsDigits(s) == Len(s) > 0 /\ \A i \in 1..Len(s) : \E d \in 0..9 : Digit(d) = SubSeq(s, i, i)

RECURSIVE Nat10(_)
Nat10(s) == IF Len(s) = 0 THEN 0
            ELSE 10 * Nat10(SubSeq(s, 1, Len(s) - 1)) + DigitVal(SubSeq(s, Len(s), Len(s)))

\* float(s) accepts an optional sign and digits (the controller's limit replies);
\* anything else, the empty string included, is a ValueError
IsFloat(s) == IF StartsWith(s, "-") THEN IsDigits(From(s, 1)) ELSE IsDigits(s)
Float(s) == IF StartsWith(s, "-") THEN 0 - Nat10(From(s, 1)) ELSE Nat10(s)

\* bytes.replace(b'\r', b'').replace(b'\n', b'')
RECURSIVE StripCRLF(_)
StripCRLF(s) ==
    IF s = "" THEN ""
    ELSE LET c == SubSeq(s, 1, 1)
             r == StripCRLF(SubSeq(s, 2, Len(s)))
         IN  IF c \in {"\r", "\n"} THEN r ELSE c \o r

(***************************************************************************)
(* ControllerState: the MultiValueEnum of status codes.                    *)
(***************************************************************************)
NotReferencedCodes == {"0A", "0B", "0C", "0D", "0E", "0F", "10", "11"}
ConfigurationCodes == {"14"}
HomingCodes == {"1E", "1F"}
MovingCodes == {"28"}
ReadyCodes == {"32", "33", "34", "35"}
DisableCodes == {"3C", "3D", "3E"}
JoggingCodes == {"46", "47"}

StateNames == {"NotReferenced", "Configuration", "Homing", "Moving", "Ready",
               "Disable", "Jogging", "Unknown"}

\* ControllerState(v) succeeds for a listed value (the member's first value or an
\* alias) and raises ValueError otherwise
IsControllerState(v) ==
    v \in NotReferencedCodes \cup ConfigurationCodes \cup HomingCodes \cup MovingCodes
          \cup ReadyCodes \cup DisableCodes \cup JoggingCodes \cup {"Unknown"}

\* the enumeration with READY_FROM_JOGGING left out
ControllerState_short(v) ==
    IF v \in NotReferencedCodes THEN "NotReferenced"
    ELSE IF v \in ConfigurationCodes THEN "Configuration"
    ELSE IF v \in HomingCodes THEN "Homing"
    ELSE IF v \in MovingCodes THEN "Moving"
    ELSE IF v \in ReadyCodes \ {"35"} THEN "Ready"
    ELSE IF v \in DisableCodes THEN "Disable"
    ELSE IF v \in JoggingCodes THEN "Jogging"
    ELSE "Unknown"

ControllerState(v) ==
    IF v \in NotReferencedCodes THEN "NotReferenced"
    ELSE IF v \in ConfigurationCodes THEN "Configuration"
    ELSE IF v \in HomingCodes THEN "Homing"
    ELSE IF v \in MovingCodes THEN "Moving"
    ELSE IF v \in ReadyCodes THEN "Ready"
    ELSE IF v \in DisableCodes THEN "Disable"
    ELSE IF v \in JoggingCodes THEN "Jogging"
    ELSE "Unknown"

(***************************************************************************)
(* State.                                                                  *)
(***************************************************************************)
VARIABLES
    stack,          \* stack[t]: the call stack of thread t, innermost frame last
    status,         \* status[t]: idle | caller | thread | detached | finished | returned | raised
    ret,            \* ret[t]: the value the last call of thread t returned
    exc,            \* exc[t]: the exception thread t raised last
    call,           \* call[t]: the API call a caller thread made, [op, self, arg, wait]
    IsConnected,    \* Controller.IsConnected, per controller object
    stateLock,      \* MainController.__stateLock__ is locked
    serialPort,     \* MainController.__serialPort__: [isOpen, timeout (in tenths of a second)]
    rx,             \* the port's input buffer: the reply lines not yet read
    device,         \* device[d]: the SMC100 at address d, [code, ht]
    env,            \* the transport: [wTimeouts, faults: the timeouts and errors it has left,
                    \* recording, code0, timeouts0, faults0: what it began with,
                    \* address: the address of the main controller, err: the
                    \* last error the controller reports]
    wire,           \* what a recording transport saw: [op, data] per write attempt and read
    lastRead,       \* lastRead[d]: the state GetState returned last for controller d
    excepthook      \* threading.excepthook ran: a started thread ended with an exception

vars == <<stack, status, ret, exc, call, IsConnected, stateLock, serialPort, rx,
          device, env, wire, lastRead, excepthook>>

TimeoutDefault == 10    \* Serial(..., timeout=1)
TimeoutReset == 1       \* Reset: timeout = 0.1

\* Controller._address
Address(d) == IF d = Main THEN env.address ELSE d

(***************************************************************************)
(* The environment: SMC100 controllers on the bus.                         *)
(***************************************************************************)
Booting == "--"         \* a controller rebooting after RS answers nothing

\* the codes a controller reports, and codes outside the enumeration
TableCodes == NotReferencedCodes \cup ConfigurationCodes \cup HomingCodes \cup MovingCodes
              \cup ReadyCodes \cup DisableCodes \cup JoggingCodes
OtherCodes == {"00", "12", "36", "3F", "ZZ"}

DevMin == 0 - DevMax

\* the command a controller at address a sees in a written line: [mn, args], or
\* None when the line is not addressed to it
Parse(a, line) ==
    LET c == StripCRLF(line)
        p == Str(a)
    IN  IF StartsWith(c, p) /\ Len(c) >= Len(p) + 2
        THEN [mn |-> SubSeq(c, Len(p) + 1, Len(p) + 2), args |-> From(c, Len(p) + 2)]
        ELSE [mn |-> None, args |-> ""]

\* the controller's state after the command
DeviceAfter(dv, cmd) ==
    LET st == ControllerState(dv.code) IN
    IF dv.code = Booting THEN dv
    ELSE IF cmd.mn = "RS" /\ cmd.args = "" THEN [dv EXCEPT !.code = Booting]
    ELSE IF cmd.mn = "PW" /\ cmd.args = "1" /\ st = "NotReferenced" THEN [dv EXCEPT !.code = "14"]
    ELSE IF cmd.mn = "PW" /\ cmd.args = "0" /\ st = "Configuration" THEN [dv EXCEPT !.code = "10"]
    ELSE IF cmd.mn = "OR" /\ cmd.args = "" /\ st = "NotReferenced" THEN [dv EXCEPT !.code = "1E"]
    ELSE IF cmd.mn = "MM" /\ cmd.args = "0" /\ st = "Ready" THEN [dv EXCEPT !.code = "3C"]
    ELSE IF cmd.mn = "MM" /\ cmd.args = "1" /\ st = "Disable" THEN [dv EXCEPT !.code = "34"]
    ELSE IF cmd.mn = "PA" /\ st = "Ready" THEN [dv EXCEPT !.code = "28"]
    ELSE IF cmd.mn = "ST" /\ st = "Moving" THEN [dv EXCEPT !.code = "33"]
    ELSE IF cmd.mn = "HT" /\ cmd.args \in {"1", "2"} /\ st = "Configuration"
         THEN [dv EXCEPT !.ht = cmd.args]
    ELSE dv

\* the reply lines of the controller at address a to the command
DeviceReply(a, dv, cmd) ==
    LET echo == Str(a) \o cmd.mn IN
    IF dv.code = Booting \/ cmd.args # "?" THEN <<>>
    ELSE IF cmd.mn = "TS" THEN <<echo \o "00" \o dv.code \o "\r\n">>
    ELSE IF cmd.mn = "HT" THEN <<echo \o dv.ht \o "\r\n">>
    ELSE IF cmd.mn = "SL" THEN <<echo \o Str(DevMin) \o "\r\n">>
    ELSE IF cmd.mn = "SR" THEN <<echo \o Str(DevMax) \o "\r\n">>
    ELSE IF cmd.mn = "MM"
         THEN <<echo \o (IF dv.code \in DisableCodes THEN "0" ELSE "1") \o "\r\n">>
    ELSE <<>>

\* a controller finishes what it was doing on its own: the reboot, the homing, the move
CanSettle(dv) == dv.code \in {Booting} \cup HomingCodes \cup MovingCodes
Settled(dv) ==
    [dv EXCEPT !.code = IF @ = Booting THEN "0A" ELSE IF @ \in HomingCodes THEN "32" ELSE "33"]

Addressed(line) == {d \in Devices : Parse(Address(d), line).mn # None}

\* the controller as the line finds it: how far it has got since the last line
\* addressed to it shows only now
Found(d, settle) == IF settle /\ CanSettle(device[d]) THEN Settled(device[d]) ELSE device[d]

RECURSIVE Replies(_, _, _)
Replies(ds, line, settle) ==
    IF ds = {} THEN <<>>
    ELSE LET d == CHOOSE x \in ds : \A y \in ds : x <= y
         IN  DeviceReply(Address(d), Found(d, settle), Parse(Address(d), line))
             \o Replies(ds \ {d}, line, settle)

\* the line TB, sent without an address, is answered by the controller that owns
\* the link with its last error: <address>TB<code><description>
ErrorReply(line) ==
    IF StripCRLF(line) = "TB" /\ device[Main].code # Booting
    THEN << Str(Address(Main)) \o "TB" \o env.err
            \o (IF env.err = "0" THEN " No error" ELSE " Error") \o "\r\n" >>
    ELSE <<>>

\* a line reaches the bus: the controller it addresses handles it and its reply
\* is queued
Transmit(line, settle) ==
    /\ settle => \E d \in Addressed(line) : CanSettle(device[d])
    /\ device' = [d \in Devices |->
                    IF d \in Addressed(line)
                    THEN DeviceAfter(Found(d, settle), Parse(Address(d), line)) ELSE device[d]]
    /\ rx' = rx \o Replies(Addressed(line), line, settle) \o ErrorReply(line)

Record(op, data) ==
    wire' = IF env.recording /\ Len(wire) < MaxWire
            THEN Append(wire, [op |-> op, data |-> data]) ELSE wire

(***************************************************************************)
(* Threads and call stacks.                                                *)
(***************************************************************************)
Frame(proc, self, arg, loc) ==
    [proc |-> proc, pc |-> "start", self |-> self, arg |-> arg, loc |-> loc]

Front(s) == SubSeq(s, 1, Len(s) - 1)
Top(t) == stack[t][Len(stack[t])]

\* thread t is at label pc of method proc
At(t, proc, pc) ==
    /\ stack[t] # <<>>
    /\ Top(t).proc = proc
    /\ Top(t).pc = pc

\* a frame whose try statement catches whatever is raised under it: the bare
\* except of GetState, the except Exception of Controller.Connect
Catches(f) ==
    \/ f.proc = "GetState" /\ f.pc # "except"
    \/ f.proc = "Connect" /\ f.pc \in {"setstate", "done"}

RECURSIVE Unwind(_)
Unwind(s) ==
    IF s = <<>> THEN <<>>
    ELSE IF Catches(s[Len(s)]) THEN [s EXCEPT ![Len(s)].pc = "except"]
    ELSE Unwind(Front(s))

\* what becomes of a thread whose outermost frame is left
Ended(st, how) ==
    IF st = "caller" THEN how
    ELSE IF st = "thread" THEN "finished"
    ELSE "idle"

Goto(t, pc) ==
    /\ stack' = [stack EXCEPT ![t][Len(stack[t])].pc = pc]
    /\ UNCHANGED <<status, ret, exc, excepthook>>

CallProc(t, pc, f) ==
    /\ stack' = [stack EXCEPT ![t] = Append([@ EXCEPT ![Len(@)].pc = pc], f)]
    /\ UNCHANGED <<status, ret, exc, excepthook>>

Return(t, v) ==
    /\ stack' = [stack EXCEPT ![t] = Front(@)]
    /\ ret' = [ret EXCEPT ![t] = v]
    /\ status' = IF Len(stack[t]) = 1
                 THEN [status EXCEPT ![t] = Ended(@, "returned")] ELSE status
    /\ UNCHANGED <<exc, excepthook>>

\* an exception propagates to the nearest try that catches it; out of a started
\* thread it ends the thread (threading.excepthook), join() does not re-raise it
Raise(t, e) ==
    LET s == Unwind(stack[t]) IN
    /\ stack' = [stack EXCEPT ![t] = s]
    /\ exc' = [exc EXCEPT ![t] = e]
    /\ status' = IF s = <<>> THEN [status EXCEPT ![t] = Ended(@, "raised")] ELSE status
    /\ excepthook' = (excepthook \/ (s = <<>> /\ status[t] \in {"thread", "detached"}))
    /\ UNCHANGED ret

\* no program variable but the thread's own stack and registers changes
OnlyThread == UNCHANGED <<call, IsConnected, stateLock, serialPort, rx, device, env, wire, lastRead>>

(***************************************************************************)
(* MainController: the serial link (lines 235-269).                        *)
(***************************************************************************)
\* (value + '\r\n').encode(encoding='ascii')
Encode(value) == value \o "\r\n"

\* MainController.Read: readline() with every CR and LF removed; readline()
\* returns b'' when the timeout passes with nothing in the buffer
ReadLine == IF rx = <<>> THEN "" ELSE Head(rx)
Read(line) == StripCRLF(line)

\* SuperWrite: serial.write succeeds and the line is on the bus; the number of
\* bytes written is returned
SuperWrite_ok(t) ==
    /\ At(t, "SuperWrite", "start")
    /\ serialPort.isOpen
    /\ env.wTimeouts = 0
    /\ \E settle \in BOOLEAN : Transmit(Encode(Top(t).arg), settle)
    /\ Record("write", Encode(Top(t).arg))
    /\ Return(t, Len(Encode(Top(t).arg)))
    /\ UNCHANGED <<call, IsConnected, stateLock, serialPort, env, lastRead>>

\* the timeout swallowed and the write given up
SuperWrite_timeout_dropped(t) ==
    /\ At(t, "SuperWrite", "start")
    /\ serialPort.isOpen
    /\ env.wTimeouts > 0
    /\ env' = [env EXCEPT !.wTimeouts = @ - 1]
    /\ Record("timeout", Encode(Top(t).arg))
    /\ Return(t, None)
    /\ UNCHANGED <<call, IsConnected, stateLock, serialPort, rx, device, lastRead>>

\* SuperWrite: serial.write raises SerialTimeoutException; sleep(0.2), then the
\* method calls itself with the same value
SuperWrite_timeout(t) ==
    /\ At(t, "SuperWrite", "start")
    /\ serialPort.isOpen
    /\ env.wTimeouts > 0
    /\ env' = [env EXCEPT !.wTimeouts = @ - 1]
    /\ Record("timeout", Encode(Top(t).arg))
    /\ CallProc(t, "retried", Frame("SuperWrite", Top(t).self, Top(t).arg, None))
    /\ UNCHANGED <<call, IsConnected, stateLock, serialPort, rx, device, lastRead>>

\* SuperWrite: the recursive call returned; the except branch returns None
SuperWrite_retried(t) ==
    /\ At(t, "SuperWrite", "retried")
    /\ Return(t, None)
    /\ OnlyThread

\* SuperWrite: serial.write raises a SerialException that is no timeout
SuperWrite_error(t) ==
    /\ At(t, "SuperWrite", "start")
    /\ serialPort.isOpen
    /\ env.faults > 0
    /\ env' = [env EXCEPT !.faults = @ - 1]
    /\ Raise(t, "SerialException")
    /\ UNCHANGED <<call, IsConnected, stateLock, serialPort, rx, device, wire, lastRead>>

\* SuperQuery: with Lock() takes a lock made for this call, which nothing else
\* holds; then raise_error() if check_error, else SuperWrite(value)
SuperQuery_start(t) ==
    /\ At(t, "SuperQuery", "start")
    /\ IF Top(t).loc
       THEN CallProc(t, "write", Frame("raise_error", Top(t).self, None, None))
       ELSE CallProc(t, "read", Frame("SuperWrite", Top(t).self, Top(t).arg, None))
    /\ OnlyThread

SuperQuery_write(t) ==
    /\ At(t, "SuperQuery", "write")
    /\ CallProc(t, "check", Frame("SuperWrite", Top(t).self, Top(t).arg, None))
    /\ OnlyThread

SuperQuery_check(t) ==
    /\ At(t, "SuperQuery", "check")
    /\ CallProc(t, "read", Frame("raise_error", Top(t).self, None, None))
    /\ OnlyThread

\* SuperQuery: return self.Read().decode(errors='replace')
SuperQuery_read(t) ==
    /\ At(t, "SuperQuery", "read")
    /\ serialPort.isOpen
    /\ rx' = IF rx = <<>> THEN rx ELSE Tail(rx)
    /\ Record("read", ReadLine)
    /\ Return(t, Read(ReadLine))
    /\ UNCHANGED <<call, IsConnected, stateLock, serialPort, device, env, lastRead>>

\* SuperQuery: readline() raises a SerialException
SuperQuery_read_error(t) ==
    /\ At(t, "SuperQuery", "read")
    /\ serialPort.isOpen
    /\ env.faults > 0
    /\ env' = [env EXCEPT !.faults = @ - 1]
    /\ Raise(t, "SerialException")
    /\ UNCHANGED <<call, IsConnected, stateLock, serialPort, rx, device, wire, lastRead>>

\* read_error: return self.SuperQuery('TB')
read_error_start(t) ==
    /\ At(t, "read_error", "start")
    /\ CallProc(t, "done", Frame("SuperQuery", Top(t).self, "TB", FALSE))
    /\ OnlyThread

read_error_done(t) ==
    /\ At(t, "read_error", "done")
    /\ Return(t, ret[t])
    /\ OnlyThread

\* raise_error: err = self.read_error()
raise_error_start(t) ==
    /\ At(t, "raise_error", "start")
    /\ CallProc(t, "test", Frame("read_error", Top(t).self, None, None))
    /\ OnlyThread

\* raise_error: if err[0] != "0": raise Exception(err); err[0] of an empty string
\* is an IndexError
raise_error_test(t) ==
    /\ At(t, "raise_error", "test")
    /\ IF ret[t] = "" THEN Raise(t, "IndexError")
       ELSE IF SubSeq(ret[t], 1, 1) # "0" THEN Raise(t, "Exception")
       ELSE Return(t, None)
    /\ OnlyThread

(***************************************************************************)
(* Controller: Write and Query (lines 59-65).                              *)
(***************************************************************************)
\* (str(self._address) if self._address is not None else "") + string
Prefixed(d, string) == Str(Address(d)) \o string

Write_start(t) ==
    /\ At(t, "Write", "start")
    /\ CallProc(t, "done", Frame("SuperWrite", Top(t).self, Prefixed(Top(t).self, Top(t).arg), None))
    /\ OnlyThread

Write_done(t) ==
    /\ At(t, "Write", "done")
    /\ Return(t, None)
    /\ OnlyThread

\* reply = self.MainController.SuperQuery(query + '?', check_error)
Query_start(t) ==
    /\ At(t, "Query", "start")
    /\ CallProc(t, "strip", Frame("SuperQuery", Top(t).self,
                                  Prefixed(Top(t).self, Top(t).arg) \o "?", Top(t).loc))
    /\ OnlyThread

\* return reply[len(query):]
Stripped(query, reply) == From(reply, Len(query))

Query_strip(t) ==
    /\ At(t, "Query", "strip")
    /\ Return(t, Stripped(Prefixed(Top(t).self, Top(t).arg), ret[t]))
    /\ OnlyThread

(***************************************************************************)
(* Controller.GetState (lines 133-141).                                    *)
(***************************************************************************)
\* self.MainController.__stateLock__.acquire(), then self.Query('TS')
GetState_acquire(t) ==
    /\ At(t, "GetState", "start")
    /\ ~stateLock
    /\ stateLock' = TRUE
    /\ CallProc(t, "decode", Frame("Query", Top(t).self, "TS", FALSE))
    /\ UNCHANGED <<call, IsConnected, serialPort, rx, device, env, wire, lastRead>>

\* state = self.Query('TS')[-2:]; state = ControllerState(state), a ValueError
\* for a value the enumeration does not list, caught by the method's own except
GetState_decode(t) ==
    /\ At(t, "GetState", "decode")
    /\ LET v == Last2(ret[t]) IN
       IF IsControllerState(v)
       THEN /\ stack' = [stack EXCEPT ![t][Len(stack[t])].pc = "release",
                                      ![t][Len(stack[t])].loc =
                                          [raw |-> ret[t], state |-> ControllerState(v)]]
            /\ UNCHANGED exc
       ELSE /\ stack' = [stack EXCEPT ![t][Len(stack[t])].pc = "except",
                                      ![t][Len(stack[t])].loc =
                                          [raw |-> ret[t], state |-> None]]
            /\ exc' = [exc EXCEPT ![t] = "ValueError"]
    /\ UNCHANGED <<status, ret, excepthook>>
    /\ OnlyThread

\* self.MainController.__stateLock__.release(); return state
GetState_release(t) ==
    /\ At(t, "GetState", "release")
    /\ stateLock' = FALSE
    /\ lastRead' = [lastRead EXCEPT ![Top(t).self] = Top(t).loc.state]
    /\ Return(t, Top(t).loc.state)
    /\ UNCHANGED <<call, IsConnected, serialPort, rx, device, env, wire>>

\* except: return ControllerState.Unknown
GetState_except(t) ==
    /\ At(t, "GetState", "except")
    /\ lastRead' = [lastRead EXCEPT ![Top(t).self] = "Unknown"]
    /\ Return(t, "Unknown")
    /\ UNCHANGED <<call, IsConnected, stateLock, serialPort, rx, device, env, wire>>

\* a new GetState frame
GetStateFrame(d) == Frame("GetState", d, None, [raw |-> None, state |-> None])

(***************************************************************************)
(* Controller.SetState (lines 170-175): thread = Thread(target=__setState__) *)
(***************************************************************************)
FreeSlots == {c \in Threads : status[c] = "idle"}
FreeSlot == CHOOSE c \in FreeSlots : \A x \in FreeSlots : c <= x

\* thread.start(); without wait the method returns at once
SetState_start(t) ==
    /\ At(t, "SetState", "start")
    /\ FreeSlots # {}
    /\ LET c == FreeSlot
           f == Frame("setState", Top(t).self, Top(t).arg, None)
           wait == Top(t).loc.wait
       IN  /\ stack' = [stack EXCEPT
                          ![c] = <<f>>,
                          ![t] = IF wait
                                 THEN [@ EXCEPT ![Len(@)].pc = "join", ![Len(@)].loc.child = c]
                                 ELSE Front(@)]
           /\ status' = [status EXCEPT
                          ![c] = IF wait THEN "thread" ELSE "detached",
                          ![t] = IF ~wait /\ Len(stack[t]) = 1 THEN Ended(@, "returned") ELSE @]
           /\ ret' = IF wait THEN ret ELSE [ret EXCEPT ![t] = None]
    /\ UNCHANGED <<exc, excepthook>>
    /\ OnlyThread

\* thread.join() returns when the thread has ended, however it ended
SetState_join(t) ==
    /\ At(t, "SetState", "join")
    /\ status[Top(t).loc.child] = "finished"
    /\ stack' = [stack EXCEPT ![t] = Front(@)]
    /\ status' = [status EXCEPT
                    ![Top(t).loc.child] = "idle",
                    ![t] = IF Len(stack[t]) = 1 THEN Ended(@, "returned") ELSE @]
    /\ ret' = [ret EXCEPT ![t] = None]
    /\ UNCHANGED <<exc, excepthook>>
    /\ OnlyThread

SetStateFrame(d, value, wait) == Frame("SetState", d, value, [wait |-> wait, child |-> 0])

(***************************************************************************)
(* Controller.__setState__ (lines 142-168).                                *)
(***************************************************************************)
\* while self.State == ControllerState.Unknown: the first read
setState_start(t) ==
    /\ At(t, "setState", "start")
    /\ CallProc(t, "unknown", GetStateFrame(Top(t).self))
    /\ OnlyThread

\* the read returned Unknown: sleep(0.1) and read again
setState_wait(t) ==
    /\ At(t, "setState", "unknown")
    /\ ret[t] = "Unknown"
    /\ CallProc(t, "unknown", GetStateFrame(Top(t).self))
    /\ OnlyThread

\* case ControllerState.NotReferenced: self.Reset()
setState_NotReferenced(t) ==
    /\ At(t, "setState", "unknown")
    /\ ret[t] # "Unknown"
    /\ Top(t).arg = "NotReferenced"
    /\ CallProc(t, "final", Frame("Reset", Top(t).self, None, 0))
    /\ OnlyThread

\* case ControllerState.Configuration: self.State = ControllerState.NotReferenced
setState_Configuration(t) ==
    /\ At(t, "setState", "unknown")
    /\ ret[t] # "Unknown"
    /\ Top(t).arg = "Configuration"
    /\ CallProc(t, "pw1", SetStateFrame(Top(t).self, "NotReferenced", TRUE))
    /\ OnlyThread

\* self.Write('PW1')
setState_pw1(t) ==
    /\ At(t, "setState", "pw1")
    /\ CallProc(t, "final", Frame("Write", Top(t).self, "PW1", None))
    /\ OnlyThread

\* case ControllerState.Ready: if self.State == ControllerState.Configuration
setState_Ready(t) ==
    /\ At(t, "setState", "unknown")
    /\ ret[t] # "Unknown"
    /\ Top(t).arg = "Ready"
    /\ CallProc(t, "rdy_cfg", GetStateFrame(Top(t).self))
    /\ OnlyThread

\* self.Write('PW0') when that read was Configuration; else the next if reads the state
setState_Ready_cfg(t) ==
    /\ At(t, "setState", "rdy_cfg")
    /\ IF ret[t] = "Configuration"
       THEN CallProc(t, "rdy_nr_read", Frame("Write", Top(t).self, "PW0", None))
       ELSE CallProc(t, "rdy_nr", GetStateFrame(Top(t).self))
    /\ OnlyThread

\* if self.State == ControllerState.NotReferenced, after PW0
setState_Ready_nr_read(t) ==
    /\ At(t, "setState", "rdy_nr_read")
    /\ CallProc(t, "rdy_nr", GetStateFrame(Top(t).self))
    /\ OnlyThread

\* self.GoHome() when that read was NotReferenced
setState_Ready_nr(t) ==
    /\ At(t, "setState", "rdy_nr")
    /\ IF ret[t] = "NotReferenced"
       THEN CallProc(t, "rdy_dis_read", Frame("GoHome", Top(t).self, None, None))
       ELSE CallProc(t, "rdy_dis", GetStateFrame(Top(t).self))
    /\ OnlyThread

\* if self.State == ControllerState.Disable, after GoHome
setState_Ready_dis_read(t) ==
    /\ At(t, "setState", "rdy_dis_read")
    /\ CallProc(t, "rdy_dis", GetStateFrame(Top(t).self))
    /\ OnlyThread

\* self.Write('MM1') when that read was Disable
setState_Ready_dis(t) ==
    /\ At(t, "setState", "rdy_dis")
    /\ IF ret[t] = "Disable"
       THEN CallProc(t, "rdy_jog_read", Frame("Write", Top(t).self, "MM1", None))
       ELSE CallProc(t, "rdy_jog", GetStateFrame(Top(t).self))
    /\ OnlyThread

\* if (self.State == Jogging) or ..., after MM1
setState_Ready_jog_read(t) ==
    /\ At(t, "setState", "rdy_jog_read")
    /\ CallProc(t, "rdy_jog", GetStateFrame(Top(t).self))
    /\ OnlyThread

\* (self.State == Jogging) or (self.State == Moving) or ...: the or reads the
\* state again only when the operand before it was false
setState_Ready_jog(t) ==
    /\ At(t, "setState", "rdy_jog")
    /\ IF ret[t] = "Jogging"
       THEN Goto(t, "final")
       ELSE CallProc(t, "rdy_mov", GetStateFrame(Top(t).self))
    /\ OnlyThread

setState_Ready_mov(t) ==
    /\ At(t, "setState", "rdy_mov")
    /\ IF ret[t] = "Moving"
       THEN Goto(t, "final")
       ELSE CallProc(t, "rdy_hom", GetStateFrame(Top(t).self))
    /\ OnlyThread

\* ... or (self.State == Homing): sleep(0.3) or not, the match statement is over
setState_Ready_hom(t) ==
    /\ At(t, "setState", "rdy_hom")
    /\ Goto(t, "final")
    /\ OnlyThread

\* case ControllerState.Disable: self.Write('MM0')
setState_Disable(t) ==
    /\ At(t, "setState", "unknown")
    /\ ret[t] # "Unknown"
    /\ Top(t).arg = "Disable"
    /\ CallProc(t, "final", Frame("Write", Top(t).self, "MM0", None))
    /\ OnlyThread

\* if self.State != value: the read
setState_final(t) ==
    /\ At(t, "setState", "final")
    /\ CallProc(t, "final_test", GetStateFrame(Top(t).self))
    /\ OnlyThread

\* self.State = value when that read was not the target, else the method is over
setState_final_test(t) ==
    /\ At(t, "setState", "final_test")
    /\ IF ret[t] # Top(t).arg
       THEN CallProc(t, "end", SetStateFrame(Top(t).self, Top(t).arg, TRUE))
       ELSE Return(t, None)
    /\ OnlyThread

setState_end(t) ==
    /\ At(t, "setState", "end")
    /\ Return(t, None)
    /\ OnlyThread

(***************************************************************************)
(* Controller.Reset (lines 197-204) and Controller.GoHome (lines 94-98).   *)
(***************************************************************************)
\* savedTimeout = port.timeout; port.timeout = 0.1; self.Write('RS')
Reset_start(t) ==
    /\ At(t, "Reset", "start")
    /\ serialPort' = [serialPort EXCEPT !.timeout = TimeoutReset]
    /\ stack' = [stack EXCEPT ![t] =
                   Append([@ EXCEPT ![Len(@)].pc = "poll", ![Len(@)].loc = serialPort.timeout],
                          Frame("Write", Top(t).self, "RS", None))]
    /\ UNCHANGED <<status, ret, exc, excepthook>>
    /\ UNCHANGED <<call, IsConnected, stateLock, rx, device, env, wire, lastRead>>

\* sleep(0.5); while self.State is not ControllerState.NotReferenced: the first read
Reset_poll(t) ==
    /\ At(t, "Reset", "poll")
    /\ CallProc(t, "test", GetStateFrame(Top(t).self))
    /\ OnlyThread

\* sleep(0.1) and read again, or port.timeout = savedTimeout
Reset_test(t) ==
    /\ At(t, "Reset", "test")
    /\ IF ret[t] # "NotReferenced"
       THEN /\ CallProc(t, "test", GetStateFrame(Top(t).self))
            /\ UNCHANGED serialPort
       ELSE /\ serialPort' = [serialPort EXCEPT !.timeout = Top(t).loc]
            /\ Return(t, None)
    /\ UNCHANGED <<call, IsConnected, stateLock, rx, device, env, wire, lastRead>>

\* self.Write('OR')
GoHome_start(t) ==
    /\ At(t, "GoHome", "start")
    /\ CallProc(t, "poll", Frame("Write", Top(t).self, "OR", None))
    /\ OnlyThread

\* if wait: while(self.State == ControllerState.Moving): the first read
GoHome_poll(t) ==
    /\ At(t, "GoHome", "poll")
    /\ CallProc(t, "test", GetStateFrame(Top(t).self))
    /\ OnlyThread

GoHome_test(t) ==
    /\ At(t, "GoHome", "test")
    /\ IF ret[t] = "Moving"
       THEN CallProc(t, "test", GetStateFrame(Top(t).self))
       ELSE Return(t, None)
    /\ OnlyThread

(***************************************************************************)
(* Controller.HomeIsHardwareDefined (lines 79-92).                         *)
(***************************************************************************)
\* match self.Query('HT')
GetHome_start(t) ==
    /\ At(t, "GetHome", "start")
    /\ CallProc(t, "match", Frame("Query", Top(t).self, "HT", FALSE))
    /\ OnlyThread

\* case '1': return False; case '2': return True
GetHome_match(t) ==
    /\ At(t, "GetHome", "match")
    /\ ret[t] \in {"1", "2"}
    /\ Return(t, IF ret[t] = "1" THEN PyFalse ELSE PyTrue)
    /\ OnlyThread

\* case _: sleep(0.1); return self.HomeIsHardwareDefined
\* the call is one more frame on the stack of the thread; the interpreter raises
\* RecursionError when the stack is MaxDepth frames deep
GetHome_again(t) ==
    /\ At(t, "GetHome", "match")
    /\ ret[t] \notin {"1", "2"}
    /\ IF Len(stack[t]) < MaxDepth
       THEN CallProc(t, "ret", Frame("GetHome", Top(t).self, None, None))
       ELSE Raise(t, "RecursionError")
    /\ OnlyThread

GetHome_ret(t) ==
    /\ At(t, "GetHome", "ret")
    /\ Return(t, ret[t])
    /\ OnlyThread

\* value = bool(value); if value != self.HomeIsHardwareDefined
SetHome_start(t) ==
    /\ At(t, "SetHome", "start")
    /\ CallProc(t, "cmp", Frame("GetHome", Top(t).self, None, None))
    /\ OnlyThread

\* self.State = ControllerState.Configuration when the values differ
SetHome_cmp(t) ==
    /\ At(t, "SetHome", "cmp")
    /\ IF Top(t).arg # ret[t]
       THEN CallProc(t, "write", SetStateFrame(Top(t).self, "Configuration", TRUE))
       ELSE Return(t, None)
    /\ OnlyThread

\* self.Write('HT' + ('2' if value else '1'))
HomeCommand(value) == "HT" \o (IF value = PyTrue THEN "2" ELSE "1")

SetHome_write(t) ==
    /\ At(t, "SetHome", "write")
    /\ CallProc(t, "done", Frame("Write", Top(t).self, HomeCommand(Top(t).arg), None))
    /\ OnlyThread

SetHome_done(t) ==
    /\ At(t, "SetHome", "done")
    /\ Return(t, None)
    /\ OnlyThread

(***************************************************************************)
(* Controller.Position, MinPosition, MaxPosition (lines 114-127).          *)
(***************************************************************************)
\* the two halves of self.MinPosition <= value <= self.MaxPosition
AboveMin(min, value) == min <= value
\* only the lower limit compared
BelowMax_open(value, max) == TRUE

BelowMax(value, max) == value <= max

\* MinPosition: float(self.Query('SL'))
MinPosition_start(t) ==
    /\ At(t, "MinPosition", "start")
    /\ CallProc(t, "float", Frame("Query", Top(t).self, "SL", FALSE))
    /\ OnlyThread

MinPosition_float(t) ==
    /\ At(t, "MinPosition", "float")
    /\ IF IsFloat(ret[t]) THEN Return(t, Float(ret[t])) ELSE Raise(t, "ValueError")
    /\ OnlyThread

\* MaxPosition: float(self.Query('SR'))
MaxPosition_start(t) ==
    /\ At(t, "MaxPosition", "start")
    /\ CallProc(t, "float", Frame("Query", Top(t).self, "SR", FALSE))
    /\ OnlyThread

MaxPosition_float(t) ==
    /\ At(t, "MaxPosition", "float")
    /\ IF IsFloat(ret[t]) THEN Return(t, Float(ret[t])) ELSE Raise(t, "ValueError")
    /\ OnlyThread

\* the chained comparison reads MinPosition first
SetPosition_start(t) ==
    /\ At(t, "SetPosition", "start")
    /\ CallProc(t, "min", Frame("MinPosition", Top(t).self, None, None))
    /\ OnlyThread

\* and MaxPosition only when MinPosition <= value
SetPosition_min(t) ==
    /\ At(t, "SetPosition", "min")
    /\ IF AboveMin(ret[t], Top(t).arg)
       THEN CallProc(t, "max", Frame("MaxPosition", Top(t).self, None, None))
       ELSE Raise(t, "Exception")
    /\ OnlyThread

\* self.Write('PA' + str(float(value))), or raise Exception('Position cannot be reached')
SetPosition_max(t) ==
    /\ At(t, "SetPosition", "max")
    /\ IF BelowMax(Top(t).arg, ret[t])
       THEN CallProc(t, "done", Frame("Write", Top(t).self, "PA" \o FloatStr(Top(t).arg), None))
       ELSE Raise(t, "Exception")
    /\ OnlyThread

SetPosition_done(t) ==
    /\ At(t, "SetPosition", "done")
    /\ Return(t, None)
    /\ OnlyThread

(***************************************************************************)
(* Controller.IsEnabled (lines 72-77).                                     *)
(***************************************************************************)
\* return self.Query('MM') == 1
GetEnabled_start(t) ==
    /\ At(t, "GetEnabled", "start")
    /\ CallProc(t, "cmp", Frame("Query", Top(t).self, "MM", FALSE))
    /\ OnlyThread

\* str == int: a str is equal to no int
StrEqInt(string, n) == FALSE

GetEnabled_cmp(t) ==
    /\ At(t, "GetEnabled", "cmp")
    /\ Return(t, IF StrEqInt(ret[t], 1) THEN PyTrue ELSE PyFalse)
    /\ OnlyThread

\* self.Write('MM' + str(int(bool(value))))
SetEnabled_start(t) ==
    /\ At(t, "SetEnabled", "start")
    /\ CallProc(t, "done", Frame("Write", Top(t).self,
                                 "MM" \o (IF Top(t).arg = PyTrue THEN "1" ELSE "0"), None))
    /\ OnlyThread

SetEnabled_done(t) ==
    /\ At(t, "SetEnabled", "done")
    /\ Return(t, None)
    /\ OnlyThread

(***************************************************************************)
(* Controller.Connect (lines 46-54), MainController.Connect (213-218).     *)
(***************************************************************************)
\* self.IsConnected = True; self.HomeIsHardwareDefined = homeIsHardwareDefined
Connect_start(t) ==
    /\ At(t, "Connect", "start")
    /\ IsConnected' = [IsConnected EXCEPT ![Top(t).self] = TRUE]
    /\ CallProc(t, "setstate", Frame("SetHome", Top(t).self, Top(t).arg, None))
    /\ UNCHANGED <<call, stateLock, serialPort, rx, device, env, wire, lastRead>>

\* self.SetState(ControllerState.Ready, wait=wait)
Connect_setstate(t) ==
    /\ At(t, "Connect", "setstate")
    /\ CallProc(t, "done", SetStateFrame(Top(t).self, "Ready", Top(t).loc))
    /\ OnlyThread

\* return True
Connect_done(t) ==
    /\ At(t, "Connect", "done")
    /\ Return(t, PyTrue)
    /\ OnlyThread

\* except Exception as e: self.IsConnected = False (and the method returns None)
Connect_except(t) ==
    /\ At(t, "Connect", "except")
    /\ IsConnected' = [IsConnected EXCEPT ![Top(t).self] = FALSE]
    /\ Return(t, None)
    /\ UNCHANGED <<call, stateLock, serialPort, rx, device, env, wire, lastRead>>

\* if not self.IsConnected: open the port, setDTR(False), super().Connect(...)
MainConnect_start(t) ==
    /\ At(t, "MainConnect", "start")
    /\ IF ~IsConnected[Main]
       THEN /\ serialPort' = [isOpen |-> TRUE, timeout |-> TimeoutDefault]
            /\ CallProc(t, "done", Frame("Connect", Main, Top(t).arg, Top(t).loc))
       ELSE /\ Return(t, None)
            /\ UNCHANGED serialPort
    /\ UNCHANGED <<call, IsConnected, stateLock, rx, device, env, wire, lastRead>>

\* the value of super().Connect is dropped: the method returns None
MainConnect_done(t) ==
    /\ At(t, "MainConnect", "done")
    /\ Return(t, None)
    /\ OnlyThread

\* Controller.Disconnect: self.IsConnected = False; MainController.Disconnect:
\* if self.IsConnected: super().Disconnect(); self.__serialPort__.close()
Disconnect(t) ==
    /\ At(t, "Disconnect", "start")
    /\ IF Top(t).self # Main
       THEN /\ IsConnected' = [IsConnected EXCEPT ![Top(t).self] = FALSE]
            /\ UNCHANGED serialPort
       ELSE IF IsConnected[Main]
       THEN /\ IsConnected' = [IsConnected EXCEPT ![Main] = FALSE]
            /\ serialPort' = [serialPort EXCEPT !.isOpen = FALSE]
       ELSE UNCHANGED <<IsConnected, serialPort>>
    /\ Return(t, None)
    /\ UNCHANGED <<call, stateLock, rx, device, env, wire, lastRead>>

(***************************************************************************)
(* The calls a user thread makes, one per thread.                          *)
(***************************************************************************)
NoCall == [op |-> None, self |-> 0, arg |-> None, wait |-> FALSE]

Enter(t, op, d, arg, wait, f) ==
    /\ status[t] = "ready"
    /\ status' = [status EXCEPT ![t] = "caller"]
    /\ stack' = [stack EXCEPT ![t] = <<f>>]
    /\ call' = [call EXCEPT ![t] = [op |-> op, self |-> d, arg |-> arg, wait |-> wait]]
    /\ UNCHANGED <<ret, exc, IsConnected, stateLock, serialPort, rx, device, env, wire,
                   lastRead, excepthook>>

Positions == (0 - MaxPos)..MaxPos
Targets == {"NotReferenced", "Configuration", "Ready", "Disable"}

\* controller.Stop(): self.Write('ST')
CallStop(t) ==
    \E d \in Devices :
        /\ serialPort.isOpen
        /\ Enter(t, "Stop", d, "ST", FALSE, Frame("Write", d, "ST", None))

\* mainController.SuperWrite('ST'), what Abort() does
CallSuperWrite(t) ==
    /\ serialPort.isOpen
    /\ Enter(t, "SuperWrite", Main, "ST", FALSE, Frame("SuperWrite", Main, "ST", None))

\* controller.Query(string)
CallQuery(t) ==
    \E d \in Devices, string \in {"TS", "HT", "SR"} :
        /\ serialPort.isOpen
        /\ Enter(t, "Query", d, string, FALSE, Frame("Query", d, string, FALSE))

\* controller.State
CallGetState(t) ==
    \E d \in Devices :
        /\ serialPort.isOpen
        /\ Enter(t, "GetState", d, None, FALSE, GetStateFrame(d))

\* controller.SetState(value, wait)
CallSetState(t) ==
    \E d \in Devices, value \in Targets, wait \in BOOLEAN :
        /\ serialPort.isOpen
        /\ Enter(t, "SetState", d, value, wait, SetStateFrame(d, value, wait))

\* controller.Position = value
CallSetPosition(t) ==
    \E d \in Devices, value \in Positions :
        /\ serialPort.isOpen
        /\ Enter(t, "SetPosition", d, value, FALSE, Frame("SetPosition", d, value, None))

\* controller.Query(string, check_error=True)
CallQueryChecked(t) ==
    \E d \in Devices, string \in {"TS", "HT"} :
        /\ serialPort.isOpen
        /\ Enter(t, "QueryChecked", d, string, FALSE, Frame("Query", d, string, TRUE))

\* controller.IsEnabled
CallGetEnabled(t) ==
    \E d \in Devices :
        /\ serialPort.isOpen
        /\ Enter(t, "GetEnabled", d, None, FALSE, Frame("GetEnabled", d, None, None))

\* controller.IsEnabled = value
CallSetEnabled(t) ==
    \E d \in Devices, value \in {PyTrue, PyFalse} :
        /\ serialPort.isOpen
        /\ Enter(t, "SetEnabled", d, value, FALSE, Frame("SetEnabled", d, value, None))

\* controller.Disconnect()
CallDisconnect(t) ==
    \E d \in Devices :
        Enter(t, "Disconnect", d, None, FALSE, Frame("Disconnect", d, None, None))

\* controller.Reset()
CallReset(t) ==
    \E d \in Devices :
        /\ serialPort.isOpen
        /\ Enter(t, "Reset", d, None, FALSE, Frame("Reset", d, None, None))

\* controller.HomeIsHardwareDefined
CallGetHome(t) ==
    \E d \in Devices :
        /\ serialPort.isOpen
        /\ Enter(t, "GetHome", d, None, FALSE, Frame("GetHome", d, None, None))

\* controller.HomeIsHardwareDefined = value
CallSetHome(t) ==
    \E d \in Devices, value \in {PyTrue, PyFalse} :
        /\ serialPort.isOpen
        /\ Enter(t, "SetHome", d, value, FALSE, Frame("SetHome", d, value, None))

\* controller.Connect(homeIsHardwareDefined, wait) on a Controller, with the
\* main controller's port open; mainController.Connect(port, ...) on the main one
CallConnect(t) ==
    \E d \in Devices, home \in {PyTrue, PyFalse}, wait \in BOOLEAN :
        /\ d # Main => serialPort.isOpen
        /\ Enter(t, "Connect", d, home, wait,
                 IF d = Main THEN Frame("MainConnect", d, home, wait)
                 ELSE Frame("Connect", d, home, wait))

(***************************************************************************)
(* Specifications.                                                         *)
(***************************************************************************)
\* one code per state of the controller, and the reboot
StateCodes == {"0A", "14", "1E", "28", "32", "3C", "46", Booting}

\* The objects are constructed; with connected, MainController.Connect has
\* opened the port earlier.  The controllers are in any state: they are switched
\* on and driven from their front panels independently of the program.
InitEnv(callers, connected, codes, timeouts, faults, recording, addresses, errs) ==
    /\ stack = [t \in Threads |-> <<>>]
    /\ status = [t \in Threads |-> IF t \in callers THEN "ready" ELSE "idle"]
    /\ ret = [t \in Threads |-> None]
    /\ exc = [t \in Threads |-> None]
    /\ call = [t \in Threads |-> NoCall]
    /\ IsConnected \in {[d \in Devices |-> c] : c \in connected}
    /\ stateLock = FALSE
    /\ serialPort = [isOpen |-> IsConnected[Main], timeout |-> TimeoutDefault]
    /\ rx = <<>>
    /\ \E c \in codes, h \in {"1", "2"}, k \in timeouts, n \in faults,
          a \in addresses, e \in errs :
          /\ device = [d \in Devices |-> [code |-> c, ht |-> h]]
          /\ env = [wTimeouts |-> k, faults |-> n, recording |-> recording,
                    code0 |-> c, timeouts0 |-> k, faults0 |-> n,
                    address |-> a, err |-> e]
    /\ wire = <<>>
    /\ lastRead = [d \in Devices |-> None]
    /\ excepthook = FALSE

\* MainController(address=1), the default, and a controller without an error
InitWith(callers, connected, codes, timeouts, faults, recording) ==
    InitEnv(callers, connected, codes, timeouts, faults, recording, {1}, {"0"})

Calls(t) ==
    \/ CallStop(t)
    \/ CallSuperWrite(t)
    \/ CallQuery(t)
    \/ CallGetState(t)
    \/ CallSetState(t)
    \/ CallSetPosition(t)
    \/ CallSetHome(t)
    \/ CallGetHome(t)

LinkSteps(t) ==
    \/ SuperWrite_ok(t)
    \/ SuperQuery_start(t)
    \/ SuperQuery_read(t)
    \/ Write_start(t)
    \/ Write_done(t)
    \/ Query_start(t)
    \/ Query_strip(t)
    \/ GetState_acquire(t)
    \/ GetState_decode(t)
    \/ GetState_release(t)
    \/ GetState_except(t)

TimeoutSteps(t) ==
    \/ SuperWrite_timeout(t)
    \/ SuperWrite_retried(t)

DriverSteps(t) ==
    \/ SetState_start(t)
    \/ SetState_join(t)
    \/ setState_start(t)
    \/ setState_wait(t)
    \/ setState_NotReferenced(t)
    \/ setState_Configuration(t)
    \/ setState_pw1(t)
    \/ setState_Ready(t)
    \/ setState_Ready_cfg(t)
    \/ setState_Ready_nr_read(t)
    \/ setState_Ready_nr(t)
    \/ setState_Ready_dis_read(t)
    \/ setState_Ready_dis(t)
    \/ setState_Ready_jog_read(t)
    \/ setState_Ready_jog(t)
    \/ setState_Ready_mov(t)
    \/ setState_Ready_hom(t)
    \/ setState_final(t)
    \/ setState_final_test(t)
    \/ setState_end(t)
    \/ Reset_start(t)
    \/ Reset_poll(t)
    \/ Reset_test(t)
    \/ GoHome_start(t)
    \/ GoHome_poll(t)
    \/ GoHome_test(t)

HomeSteps(t) ==
    \/ GetHome_start(t)
    \/ GetHome_match(t)
    \/ GetHome_again(t)
    \/ GetHome_ret(t)
    \/ SetHome_start(t)
    \/ SetHome_cmp(t)
    \/ SetHome_write(t)
    \/ SetHome_done(t)

PositionSteps(t) ==
    \/ MinPosition_start(t)
    \/ MinPosition_float(t)
    \/ MaxPosition_start(t)
    \/ MaxPosition_float(t)
    \/ SetPosition_start(t)
    \/ SetPosition_min(t)
    \/ SetPosition_max(t)
    \/ SetPosition_done(t)

ConnectSteps(t) ==
    \/ Connect_start(t)
    \/ Connect_setstate(t)
    \/ Connect_done(t)
    \/ MainConnect_start(t)
    \/ MainConnect_done(t)

\* One user thread makes one call; the controllers answer every line, the port
\* raises nothing, and the transport records what it sees.
Init == InitWith({1}, {TRUE}, StateCodes, {0}, {0}, TRUE)

Next ==
    \/ \E t \in Threads : Calls(t)
    \/ \E t \in Threads : LinkSteps(t)
    \/ \E t \in Threads : DriverSteps(t)
    \/ \E t \in Threads : setState_Disable(t)
    \/ \E t \in Threads : HomeSteps(t)
    \/ \E t \in Threads : PositionSteps(t)

Spec == Init /\ [][Next]_vars

\* One user thread makes one call of the link: a write or a query.  The port may
\* time out writes, and raise a SerialException from a write or a read; the
\* controllers report any code.
LinkCalls(t) ==
    \/ CallStop(t)
    \/ CallSuperWrite(t)
    \/ CallQuery(t)
    \/ CallGetState(t)

InitLink == InitWith({1}, {TRUE}, TableCodes \cup OtherCodes \cup {Booting},
                     0..MaxTimeouts, 0..MaxFaults, TRUE)

NextLink ==
    \/ \E t \in Threads : LinkCalls(t)
    \/ \E t \in Threads : LinkSteps(t)
    \/ \E t \in Threads : TimeoutSteps(t)
    \/ \E t \in Threads : SuperWrite_error(t)
    \/ \E t \in Threads : SuperQuery_read_error(t)

SpecLink == InitLink /\ [][NextLink]_vars

\* One user thread drives a controller: SetState or HomeIsHardwareDefined.  The
\* port may raise a SerialException from a write, MaxFaults times at most.
DriverCalls(t) ==
    \/ CallSetState(t)
    \/ CallSetHome(t)

InitFaulty == InitWith({1}, {TRUE}, StateCodes, {0}, {MaxFaults}, FALSE)

NextFaulty ==
    \/ \E t \in Threads : DriverCalls(t)
    \/ \E t \in Threads : LinkSteps(t)
    \/ \E t \in Threads : DriverSteps(t)
    \/ \E t \in Threads : setState_Disable(t)
    \/ \E t \in Threads : HomeSteps(t)
    \/ \E t \in Threads : SuperWrite_error(t)

SpecFaulty == InitFaulty /\ [][NextFaulty]_vars

\* One user thread connects and disconnects the controllers, starting from the
\* objects as constructed (IsConnected = False, line 33): mainController.Connect
\* opens the port, controller.Connect needs it open.  The controllers start
\* disabled or rebooting; the other states follow from the commands of Connect.
\* The port may raise a SerialException from a write, MaxFaults times at most.
InitConnect == InitWith({1}, {FALSE}, {"3C", Booting}, {0}, {MaxFaults}, FALSE)

NextConnect ==
    \/ \E t \in Threads : CallConnect(t)
    \/ \E t \in Threads : CallDisconnect(t)
    \/ \E t \in Threads : Disconnect(t)
    \/ \E t \in Threads : LinkSteps(t)
    \/ \E t \in Threads : DriverSteps(t)
    \/ \E t \in Threads : HomeSteps(t)
    \/ \E t \in Threads : ConnectSteps(t)
    \/ \E t \in Threads : Connect_except(t)
    \/ \E t \in Threads : SuperWrite_error(t)

SpecConnect == InitConnect /\ [][NextConnect]_vars

\* Two user threads share the link, each making one call of it on a controller;
\* the port raises nothing and the transport records what it sees.
SharedCalls(t) ==
    \/ CallStop(t)
    \/ CallQuery(t)
    \/ CallGetState(t)

InitShared == InitWith({1, 2}, {TRUE}, {"32", "3C", Booting}, {0}, {0}, TRUE)

NextShared ==
    \/ \E t \in Threads : SharedCalls(t)
    \/ \E t \in Threads : LinkSteps(t)

SpecShared == InitShared /\ [][NextShared]_vars

(***************************************************************************)
(* C1.                                                                     *)
(***************************************************************************)
\* One user thread reads through Query with check_error set, or reads or sets
\* IsEnabled; the main controller has address 0 or 1 and its last error is none
\* ("0") or some ("A").
InitQuery == InitEnv({1}, {TRUE}, {"0A", "14", "32", "3C"}, {0}, {0}, TRUE, {0, 1}, {"0", "A"})

NextQuery ==
    \E t \in Threads :
        \/ CallQueryChecked(t)
        \/ CallGetEnabled(t)
        \/ CallSetEnabled(t)
        \/ SuperWrite_ok(t)
        \/ SuperQuery_start(t)
        \/ SuperQuery_write(t)
        \/ SuperQuery_check(t)
        \/ SuperQuery_read(t)
        \/ read_error_start(t)
        \/ read_error_done(t)
        \/ raise_error_start(t)
        \/ raise_error_test(t)
        \/ Write_start(t)
        \/ Write_done(t)
        \/ Query_start(t)
        \/ Query_strip(t)
        \/ GetEnabled_start(t)
        \/ GetEnabled_cmp(t)
        \/ SetEnabled_start(t)
        \/ SetEnabled_done(t)

SpecQuery == InitQuery /\ [][NextQuery]_vars

\* Two user threads call Reset, each on a controller of the same link.
InitReset == InitWith({1, 2}, {TRUE}, {"0A", "32"}, {0}, {0}, FALSE)

NextReset ==
    \E t \in Threads :
        \/ CallReset(t)
        \/ Reset_start(t)
        \/ Reset_poll(t)
        \/ Reset_test(t)
        \/ LinkSteps(t)

SpecReset == InitReset /\ [][NextReset]_vars

\* thread t has written a query and has not read its reply yet
InFlight(t) == At(t, "SuperQuery", "read")

\* C1: at most one transaction is in flight at a time: while a thread is
\* between the write of its query and the read of the reply, nothing else is
\* written to or read from the transport.
C1_OneTransactionInFlight ==
    [][\A t \in Threads : (InFlight(t) /\ InFlight(t)') => wire' = wire]_vars

(***************************************************************************)
(* What a recording transport saw.                                         *)
(***************************************************************************)
WriteOf(line) == [op |-> "write", data |-> line]
TimeoutOf(line) == [op |-> "timeout", data |-> line]
ReadOf(line) == [op |-> "read", data |-> line]

IsWrite(e) == e.op = "write"
Written == SelectSeq(wire, IsWrite)

RECURSIVE Times(_, _)
Times(n, s) == IF n = 0 THEN <<>> ELSE s \o Times(n - 1, s)

\* a state query of controller d and the reply carrying code
StateExchange(d, code) ==
    << WriteOf(Prefixed(d, "TS?") \o "\r\n"),
       ReadOf(Prefixed(d, "TS") \o "00" \o code \o "\r\n") >>

\* the call of user thread t is over
Over(t) == status[t] \in {"returned", "raised"}

(***************************************************************************)
(* C2.                                                                     *)
(***************************************************************************)
\* SetState(Ready, wait=True) was called on a controller reporting Disable
DisableToReady(t) ==
    /\ call[t].op = "SetState"
    /\ call[t].arg = "Ready"
    /\ call[t].wait
    /\ env.code0 \in DisableCodes

\* C2 as stated: SetState(Ready, wait=True) on a controller that reports Disable
\* and turns Ready on MM1 puts exactly [state query (Disable), MM1, state query
\* (Ready)] on the wire before it returns.
C2_ThreeOperations ==
    \A t \in Threads :
        (DisableToReady(t) /\ status[t] = "returned") =>
            wire = StateExchange(call[t].self, env.code0)
                   \o << WriteOf(Prefixed(call[t].self, "MM1") \o "\r\n") >>
                   \o StateExchange(call[t].self, "34")

(***************************************************************************)
(* C3.                                                                     *)
(***************************************************************************)
\* Position = value was called with a value outside the limits of the stage
OutOfRange(t) ==
    /\ call[t].op = "SetPosition"
    /\ (call[t].arg < DevMin \/ call[t].arg > DevMax)

LimitQuery(d, name) == Prefixed(d, name) \o "?\r\n"

WritesStop(t) == call[t].op \in {"SuperWrite", "Stop"}

StopLine(t) == Encode(IF call[t].op = "SuperWrite" THEN "ST" ELSE Prefixed(call[t].self, "ST"))

C5_ReplyEchoesQuery ==
    \A t \in Threads :
        At(t, "Query", "strip") =>
            StartsWith(ret[t], Prefixed(Top(t).self, Top(t).arg))

(***************************************************************************)
(* C6.                                                                     *)
(***************************************************************************)
HexDigits == "0123456789ABCDEF"

\* the value of one hexadecimal digit, 16 for any other character
HexVal(c) ==
    IF \E i \in 1..16 : SubSeq(HexDigits, i, i) = c
    THEN (CHOOSE i \in 1..16 : SubSeq(HexDigits, i, i) = c) - 1
    ELSE 16

\* the state the table of the SMC100 gives for a two-character code
TableState(code) ==
    IF Len(code) # 2 THEN "Unknown"
    ELSE LET hi == HexVal(SubSeq(code, 1, 1))
             lo == HexVal(SubSeq(code, 2, 2))
             n == 16 * hi + lo
         IN  IF hi = 16 \/ lo = 16 THEN "Unknown"
             ELSE IF n >= 10 /\ n <= 17 THEN "NotReferenced"
             ELSE IF n = 20 THEN "Configuration"
             ELSE IF n \in {30, 31} THEN "Homing"
             ELSE IF n = 40 THEN "Moving"
             ELSE IF n >= 50 /\ n <= 53 THEN "Ready"
             ELSE IF n >= 60 /\ n <= 62 THEN "Disable"
             ELSE IF n \in {70, 71} THEN "Jogging"
             ELSE "Unknown"

\* the last two characters of the last reply the transport gave, "" if the
\* exchange ended without one
LastCode ==
    IF wire # <<>> /\ wire[Len(wire)].op = "read"
    THEN Last2(Read(wire[Len(wire)].data))
    ELSE ""

\* C6: GetState never raises; it returns the state the table gives for the last
\* two characters of the TS reply (0A..11 NotReferenced, 14 Configuration,
\* 1E/1F Homing, 28 Moving, 32..35 Ready, 3C..3E Disable, 46/47 Jogging), and
\* Unknown for any other code and for an exchange that failed.
C6_StateOfCode ==
    \A t \in Threads :
        call[t].op = "GetState" =>
            /\ status[t] # "raised"
            /\ status[t] = "returned" => ret[t] = TableState(LastCode)

C6_Witness ==
    \E t \in Threads :
        /\ call[t].op = "GetState"
        /\ status[t] = "returned"
        /\ LastCode = "35"
        /\ ret[t] = "Ready"

(***************************************************************************)
(* C7.                                                                     *)
(***************************************************************************)
\* the threads inside GetState between its acquire and its release
InsideGetState ==
    {t \in Threads : \E i \in 1..Len(stack[t]) :
        stack[t][i].proc = "GetState" /\ stack[t][i].pc \in {"decode", "release"}}

\* C7: a driver that has read Unknown can read again: the state lock it needs
\* is free, or held by a thread that is inside GetState and will release it.
C7_UnknownReadAgain ==
    \A t \in Threads :
        (At(t, "setState", "unknown") /\ ret[t] = "Unknown") =>
            (~stateLock \/ InsideGetState # {})

(***************************************************************************)
(* C8.                                                                     *)
(***************************************************************************)
\* C8: when SetState(value, wait=True) returns, the last state read from the
\* controller is value.
C8_WaitedStateReached ==
    \A t \in Threads :
        (call[t].op = "SetState" /\ call[t].wait /\ status[t] = "returned") =>
            lastRead[call[t].self] = call[t].arg

(***************************************************************************)
(* C9.                                                                     *)
(***************************************************************************)
\* what Connect returns when nothing failed: True from Controller.Connect,
\* nothing from MainController.Connect
SuccessResult(d) == IF d = Main THEN None ELSE PyTrue

\* a step of the Connect of user thread t raised: in t itself, or in a driver
\* thread it started
ConnectFailed(t) == exc[t] # None \/ excepthook

\* C9: when a step of Connect raised (setting the home flag, or driving to
\* Ready, in the calling thread or in the driver thread), the Connect that
\* waited returns with the controller not connected and with a result that
\* differs from the result of a Connect that succeeded.
C9_FailedConnectReported ==
    \A t \in Threads :
        (call[t].op = "Connect" /\ call[t].wait /\ status[t] = "returned"
         /\ ConnectFailed(t)) =>
            /\ ~IsConnected[call[t].self]
            /\ ret[t] # SuccessResult(call[t].self)

(***************************************************************************)
(* C10.                                                                    *)
(***************************************************************************)
\* C10: the HT command of the HomeIsHardwareDefined setter is written only
\* after the controller was read in Configuration.
C10_HomeWrittenInConfiguration ==
    \A t \in Threads :
        At(t, "SetHome", "write") => lastRead[Top(t).self] = "Configuration"

(***************************************************************************)
(* C11.                                                                    *)
(***************************************************************************)
\* C11: the HomeIsHardwareDefined getter bounds its retries: against a device
\* whose HT reply is never '1' or '2' it stops polling by itself, it does not
\* go on until the call stack of the thread is exhausted.
C11_RetriesBounded ==
    \A t \in Threads :
        call[t].op = "GetHome" => exc[t] # "RecursionError"

(***************************************************************************)
(* C12.                                                                    *)
(***************************************************************************)
\* C12: a Query with check_error set on a controller that answers fails exactly
\* when the last error of the controller is not '0': with error code '0' before
\* and after the write it returns, with any other code it raises the error.
C12_FailsOnDeviceError ==
    \A t \in Threads :
        (call[t].op = "QueryChecked" /\ Over(t)) =>
            IF env.err = "0" THEN status[t] = "returned"
            ELSE status[t] = "raised" /\ exc[t] = "Exception"

(***************************************************************************)
(* C13.                                                                    *)
(***************************************************************************)
\* the value part of the last line read, the reply to <address>MM?
EnabledValue(d) == From(Read(wire[Len(wire)].data), Len(Prefixed(d, "MM")))

\* C13: the IsEnabled getter returns True exactly when the value part of the MM
\* reply is '1', and False when it is '0'.
C13_EnabledWhenOne ==
    \A t \in Threads :
        (call[t].op = "GetEnabled" /\ status[t] = "returned") =>
            (ret[t] = PyTrue <=> EnabledValue(call[t].self) = "1")

(***************************************************************************)
(* C14.                                                                    *)
(***************************************************************************)
\* the line the controller answers to the query of user thread t
ReplyToQuery(t) ==
    Read(Head(DeviceReply(Address(call[t].self), device[call[t].self],
                          [mn |-> call[t].arg, args |-> "?"])))

\* thread t is in the error check that follows the write of a checked query
AfterWriteCheck(t) ==
    /\ At(t, "raise_error", "test")
    /\ Len(stack[t]) > 1
    /\ stack[t][Len(stack[t]) - 1].proc = "SuperQuery"
    /\ stack[t][Len(stack[t]) - 1].pc = "read"

\* C14: with one reply line per command, in order, the error check that follows
\* the write of a checked query does not consume the reply to the query, and
\* what the query returns is taken from the reply to the query itself.
C14_ReplyToCommand ==
    \A t \in Threads :
        call[t].op = "QueryChecked" =>
            /\ AfterWriteCheck(t) => ret[t] # ReplyToQuery(t)
            /\ status[t] = "returned" =>
                   ret[t] = Stripped(Prefixed(call[t].self, call[t].arg), ReplyToQuery(t))

(***************************************************************************)
(* C15.                                                                    *)
(***************************************************************************)
\* the activations of __setState__ under way, over all threads
Iterations ==
    {<<t, i>> \in Threads \X (1..MaxDepth) :
        i <= Len(stack[t]) /\ stack[t][i].proc = "setState"}

\* the writes of PW0, OR and MM1 seen so far
Corrections(d) ==
    {i \in 1..Len(Written) :
        Written[i].data \in {Encode(Prefixed(d, "PW0")), Encode(Prefixed(d, "OR")),
                             Encode(Prefixed(d, "MM1"))}}

\* C15: for target Ready one iteration of the driver writes at most one of PW0,
\* OR and MM1: while the first activation of __setState__ is the only one, at
\* most one of them has been written.
C15_OneCorrectionPerIteration ==
    \A t \in Threads :
        (call[t].op = "SetState" /\ call[t].arg = "Ready" /\ Cardinality(Iterations) = 1) =>
            Cardinality(Corrections(call[t].self)) <= 1

(***************************************************************************)
(* C16.                                                                    *)
(***************************************************************************)
\* C16: for target Configuration, PW1 is written only after the controller was
\* forced to NotReferenced: when the driver comes to write PW1, the last state
\* read returned NotReferenced.
C16_ConfigurationFromNotReferenced ==
    \A t \in Threads :
        At(t, "setState", "pw1") => lastRead[Top(t).self] = "NotReferenced"

(***************************************************************************)
(* C18.                                                                    *)
(***************************************************************************)
\* the threads executing GetState that have acquired the lock
Acquired ==
    {t \in Threads : \E i \in 1..Len(stack[t]) :
        stack[t][i].proc = "GetState" /\ stack[t][i].pc # "acquire"}

\* C18: the state lock is held only while a GetState call is executing: on
\* every return path of GetState the lock has been released.
C18_LockHeldOnlyInGetState == stateLock => Acquired # {}

(***************************************************************************)
(* C19.                                                                    *)
(***************************************************************************)
StateChanging(d) ==
    {Encode(Prefixed(d, c)) : c \in {"RS", "PW1", "PW0", "OR", "MM0", "MM1"}}

\* every read so far was answered with the code the controller began with
AlwaysReported ==
    \A i \in 1..Len(wire) : wire[i].op = "read" => Last2(Read(wire[i].data)) = env.code0

Resetting ==
    {t \in Threads : \E i \in 1..Len(stack[t]) : stack[t][i].proc = "Reset"}

\* C17: once every Reset that was started has returned, the read timeout of the
\* port is the one it had before the first of them began.
C17_TimeoutRestored ==
    (Resetting = {} /\ \A t \in Threads : status[t] # "raised") =>
        serialPort.timeout = TimeoutDefault

(***************************************************************************)
(* C20.                                                                    *)
(***************************************************************************)
\* C20: after a completed Connect or Disconnect of the main controller the port
\* is open exactly when the main controller is marked connected.
C20_OpenWhenConnected ==
    \A t \in Threads :
        (call[t].op \in {"Connect", "Disconnect"} /\ call[t].self = Main /\ Over(t)) =>
            (serialPort.isOpen <=> IsConnected[Main])

====
